---- MODULE Spec2Model ----
(***************************************************************************)
(* A model of src/index.js: the inventory valuation run.                   *)
(*                                                                         *)
(* main() loads the account ids, fetches the price catalog through retry,  *)
(* fetches every inventory in batches (cache file first, retry otherwise), *)
(* enriches the cached inventories and writes the reports and the CSV.     *)
(*                                                                         *)
(* JavaScript runs each callback to completion on one thread, so a step of *)
(* the model is one such run: the synchronous start of a function up to    *)
(* its first pending network call, or the handling of one network          *)
(* response together with every promise continuation it triggers.          *)
(***************************************************************************)
EXTENDS Integers, Sequences, FiniteSets, TLC

\* ------------------------------------------------------------------ bounds
\* longest account id list (and the number of distinct account ids)
MaxLen == 3
\* largest batch size handed to processInBatches
MaxBatch == 2
\* largest attempt limit handed to retry
MaxRetries == 3

\* ------------------------------------------------------------- the values
Ids == 1..MaxLen
Pos == 1..MaxLen

\* content of a cache file: none, undecodable text, or a stored inventory
Absent == "absent"
Corrupt == "corrupt"
\* "old": an inventory stored by an earlier run; "new": what the inventory
\* endpoint answers now
Inventories == {"old", "new"}
Remote == "new"

Min(a, b) == IF a < b THEN a ELSE b

\* Account ids are interchangeable strings, and the list is meant to hold
\* each once: the lists are 1, 2, ..., n. loadSteamIds does not remove
\* duplicates, so one list that names an id twice is kept.
IdLists == {[k \in 1..n |-> k] : n \in 0..MaxLen} \cup {<<1, 1>>}

\* what a promise settles with (or threw): a value or an error; the error
\* of a remote call carries the number of the attempt that raised it
NoResult == [kind |-> "none", what |-> "-", attempt |-> 0]
Value(d) == [kind |-> "value", what |-> d, attempt |-> 0]
HttpError(k) == [kind |-> "error", what |-> "http", attempt |-> k]
ParseError == [kind |-> "error", what |-> "parse", attempt |-> 0]
FileError == [kind |-> "error", what |-> "enoent", attempt |-> 0]
TypeError == [kind |-> "error", what |-> "type", attempt |-> 0]

\* ------------------------------------------------------------------ prices
\* The price catalog the endpoint answers with: item name -> sources. "AK",
\* "M4" and "Kato" have a buff price, "NoBuff" has an entry without the buff
\* source, "NoPrice" has no entry at all.
Undefined == [loaded |-> FALSE, entries |-> {}, buffed |-> {}, price |-> <<>>]
Catalog == [loaded |-> TRUE,
            entries |-> {"AK", "M4", "Kato", "NoBuff"},
            buffed |-> {"AK", "M4", "Kato"},
            price |-> [n \in {"AK", "M4", "Kato"} |->
                         CASE n = "AK" -> 1500
                           [] n = "M4" -> 6000
                           [] OTHER -> 20000]]

\* ------------------------------------------------------------- inventories
\* an entry of an inventory's items: the two identifiers, the descriptor
\* (absent on some entries) and the addons (absent on some entries)
NoItem == [present |-> FALSE, market_hash_name |-> "", category |-> "",
           weapon_name |-> ""]
Item(n, c, w) == [present |-> TRUE, market_hash_name |-> n, category |-> c,
                  weapon_name |-> w]
NoAddons == [present |-> FALSE, names |-> <<>>]
Addons(ns) == [present |-> TRUE, names |-> ns]
Entry(a, dd, it, ad) == [asset_id |-> a, d |-> dd, item |-> it, addons |-> ad]

\* the items of a stored inventory
RawItems(inv) ==
    IF inv = "old"
    THEN << Entry(11, 12, Item("AK", "Rifle", "AK-47"), Addons(<<"Kato">>)),
            Entry(13, 14, NoItem, NoAddons),
            Entry(15, 16, Item("NoPrice", "Container", ""), NoAddons) >>
    ELSE << Entry(21, 22, Item("Kato", "Sticker", ""), NoAddons),
            Entry(23, 24, Item("NoBuff", "Rifle", "AK-47"), Addons(<<>>)),
            Entry(25, 26, Item("AK", "Rifle", "AK-47"), NoAddons),
            Entry(27, 28, Item("M4", "Rifle", "M4A4"), NoAddons),
            Entry(29, 30, Item("M4", "Rifle", "M4A4"), Addons(<<"Kato">>)) >>

VARIABLES
    bots,       \* bots.txt: whether it can be read, and its non-blank lines
    dumps,      \* the dump directory: account id -> content of <id>.json
    pc,         \* where main() is
    steamIds,   \* main's steamIds
    batchSize,  \* processInBatches' batchSize
    retries,    \* retry's retries
    prices,     \* the module-wide prices
    priceI,     \* retry's i inside fetchPrices
    priceCalls, \* catalog requests issued
    priceFails, \* catalog requests that failed
    priceLoads, \* assignments to prices
    i,          \* processInBatches' i
    status,     \* per list position: state of the batch.map callback
    tryI,       \* per list position: retry's i inside fetchInventory
    calls,      \* per list position: inventory requests issued
    fails,      \* per list position: inventory requests that failed
    existed,    \* per list position: was the dump there when it started
    result,     \* per list position: what fetchInventory settled with
    launches,   \* per list position: times the callback was started
    chunkOf,    \* per list position: number of the chunk that started it
    chunks,     \* the batches sliced so far, in order
    writes,     \* per account id: writeFileSync calls on its dump this run
    dumps0,     \* the dump directory as it was when the run started
    items,      \* processData's items
    enriched,   \* whether processData returned
    csv,        \* items.csv: whether this run wrote it, and its rows
    log,        \* log.txt: what this run appended, by report section
    topError    \* what main().catch received

vars == <<bots, dumps, pc, steamIds, batchSize, retries, prices, priceI,
          priceCalls, priceFails, priceLoads, i, status, tryI, calls, fails,
          existed, result, launches,
          chunkOf, chunks, writes, dumps0, items, enriched, csv, log, topError>>

\* ------------------------------------------------------------------- retry
\* mutation: the success is not returned, the loop goes on
RetryAfterSuccess_noReturn(iter, n) ==
    IF iter + 1 < n THEN "again" ELSE "return"

\* mutation: the first success is followed by one more call
RetryAfterSuccess_retryOnce(iter, n) ==
    IF iter = 0 /\ n > 1 THEN "again" ELSE "return"

\* retry after attempt number iter + 1 succeeded: return await fn()
RetryAfterSuccess(iter, n) == "return"

\* mutation: the first failure is rethrown at once
RetryAfterFailure_first(iter, n) ==
    IF iter = 0 THEN "throw"
    ELSE IF iter + 1 < n THEN "again" ELSE "return"

\* mutation: the last attempt is taken to be number n + 1
RetryAfterFailure_offByOne(iter, n) ==
    IF iter = n THEN "throw"
    ELSE IF iter + 1 < n THEN "again" ELSE "return"

\* retry's catch block and loop header after attempt number iter + 1 failed:
\* rethrow on the last attempt, otherwise go round again
RetryAfterFailure(iter, n) ==
    IF iter = n - 1 THEN "throw"
    ELSE IF iter + 1 < n THEN "again" ELSE "return"

\* ------------------------------------------------------------------- cache
\* mutation: the dump is never found
DumpExists_never(d, id) == FALSE

\* fs.existsSync(dump)
DumpExists(d, id) == d[id] # Absent

\* JSON.parse(fs.readFileSync(dump)): throws on undecodable content
Decodable(d, id) == d[id] \in Inventories

\* ---------------------------------------------------------------- batching
\* mutation: the slice ends one element late
Slice_long(s, from, size) == SubSeq(s, from + 1, Min(from + size + 1, Len(s)))

\* steamIds.slice(from, from + size)
Slice(s, from, size) == SubSeq(s, from + 1, Min(from + size, Len(s)))

\* positions of the batch sliced at i
BatchPos(from) == {t \in 1..Len(steamIds) : from < t /\ t <= from + batchSize}

\* mutation: only a fulfilled callback counts as settled
Settled_okOnly(t) == status[t] = "ok"

Settled(t) == status[t] \in {"ok", "failed"}

\* mutation: the batch is over when one of its callbacks has settled
AllSettled_any(from) == \E t \in BatchPos(from) : Settled(t)

\* Promise.allSettled(batch.map(...)) has resolved
AllSettled(from) == \A t \in BatchPos(from) : Settled(t)

\* --------------------------------------------------------------------- log
\* log.txt is emptied when the module loads; main appends the sections. The
\* model keeps the amounts in minor units (formatCurrency prints amount/100
\* with two decimals, which shows the same number).
EmptyLog == [total |-> <<>>, byBot |-> <<>>, byCategory |-> <<>>,
             byWeapon |-> <<>>, byName |-> <<>>, stickers |-> <<>>,
             stickersTotal |-> <<>>, crafts |-> <<>>, craftsTotal |-> <<>>]

\* ----------------------------------------------------------------- initial
StartOfRun ==
    /\ pc = "load"
    /\ steamIds = <<>>
    /\ prices = Undefined
    /\ priceI = 0
    /\ priceCalls = 0
    /\ priceFails = 0
    /\ priceLoads = 0
    /\ i = 0
    /\ status = [t \in Pos |-> "idle"]
    /\ tryI = [t \in Pos |-> 0]
    /\ calls = [t \in Pos |-> 0]
    /\ fails = [t \in Pos |-> 0]
    /\ existed = [t \in Pos |-> "-"]
    /\ result = [t \in Pos |-> NoResult]
    /\ launches = [t \in Pos |-> 0]
    /\ chunkOf = [t \in Pos |-> 0]
    /\ chunks = <<>>
    /\ writes = [id \in Ids |-> 0]
    /\ items = <<>>
    /\ enriched = FALSE
    /\ csv = [written |-> FALSE, rows |-> <<>>]
    /\ log = EmptyLog
    /\ topError = NoResult

Init ==
    /\ bots \in {[readable |-> FALSE, lines |-> <<>>]}
                \cup {[readable |-> TRUE, lines |-> s] : s \in IdLists}
    /\ dumps \in [Ids -> {Absent, Corrupt, "old"}]
    /\ batchSize \in 1..MaxBatch
    /\ retries \in 1..MaxRetries
    /\ dumps0 = dumps
    /\ StartOfRun

\* -------------------------------------------------------------------- main
\* mutation: main does not wait for fetchPrices
LoadSteamIds_noAwait ==
    /\ pc = "load"
    /\ IF bots.readable
       THEN /\ steamIds' = bots.lines
            /\ pc' = "launch"
            /\ priceCalls' = 1
            /\ UNCHANGED topError
       ELSE /\ pc' = "failed"
            /\ topError' = FileError
            /\ UNCHANGED <<steamIds, priceCalls>>
    /\ UNCHANGED <<bots, dumps, batchSize, retries, prices, priceI, priceFails,
                   priceLoads, i, status, tryI, calls, fails, existed, result,
                   launches, chunkOf, chunks, writes, dumps0, items, enriched,
                   csv, log>>

\* loadSteamIds("bots.txt"), then the start of fetchPrices: retry calls the
\* operation at once, which issues the first catalog request
LoadSteamIds ==
    /\ pc = "load"
    /\ IF bots.readable
       THEN /\ steamIds' = bots.lines
            /\ pc' = "prices"
            /\ priceCalls' = 1
            /\ UNCHANGED topError
       ELSE /\ pc' = "failed"
            /\ topError' = FileError
            /\ UNCHANGED <<steamIds, priceCalls>>
    /\ UNCHANGED <<bots, dumps, batchSize, retries, prices, priceI, priceFails,
                   priceLoads, i, status, tryI, calls, fails, existed, result,
                   launches, chunkOf, chunks, writes, dumps0, items, enriched,
                   csv, log>>

\* the catalog request succeeds: retry returns, main assigns prices and
\* enters processInBatches
PricesOk ==
    /\ pc = "prices"
    /\ IF RetryAfterSuccess(priceI, retries) = "return"
       THEN /\ prices' = Catalog
            /\ priceLoads' = priceLoads + 1
            /\ i' = 0
            /\ pc' = "launch"
            /\ UNCHANGED <<priceI, priceCalls>>
       ELSE /\ priceI' = priceI + 1
            /\ priceCalls' = priceCalls + 1
            /\ UNCHANGED <<prices, priceLoads, i, pc>>
    /\ UNCHANGED <<bots, dumps, steamIds, batchSize, retries, priceFails,
                   status, tryI, calls, fails, existed, result, launches,
                   chunkOf, chunks, writes, dumps0, items, enriched, csv, log,
                   topError>>

\* the catalog request fails: retry's catch block. Should the loop end
\* without rethrowing, retry returns undefined and main goes on with it.
PricesFail ==
    /\ pc = "prices"
    /\ priceFails' = priceFails + 1
    /\ LET next == RetryAfterFailure(priceI, retries) IN
       CASE next = "throw" ->
              /\ pc' = "failed"
              /\ topError' = HttpError(priceI + 1)
              /\ UNCHANGED <<priceI, priceCalls, prices, priceLoads, i>>
         [] next = "again" ->
              /\ priceI' = priceI + 1
              /\ priceCalls' = priceCalls + 1
              /\ UNCHANGED <<pc, topError, prices, priceLoads, i>>
         [] OTHER ->
              /\ prices' = Undefined
              /\ priceLoads' = priceLoads + 1
              /\ i' = 0
              /\ pc' = "launch"
              /\ UNCHANGED <<priceI, priceCalls, topError>>
    /\ UNCHANGED <<bots, dumps, steamIds, batchSize, retries, status, tryI,
                   calls, fails, existed, result, launches, chunkOf, chunks,
                   writes, dumps0, items, enriched, csv, log>>

\* -------------------------------------------------------- processInBatches
\* mutation: the request is issued whether the dump exists or not
StartStatus_requestFirst(t) == "request"

\* what the batch.map callback of position t does when started: fetchInventory
\* answers from the dump when it exists (a JSON.parse failure is caught by the
\* callback), and otherwise retry issues the first inventory request
StartStatus(t) ==
    LET id == steamIds[t] IN
    IF DumpExists(dumps, id)
    THEN IF Decodable(dumps, id) THEN "ok" ELSE "failed"
    ELSE "request"

StartResult(t) ==
    LET id == steamIds[t] IN
    IF DumpExists(dumps, id)
    THEN IF Decodable(dumps, id) THEN Value(dumps[id]) ELSE ParseError
    ELSE NoResult

\* one round of the for loop: slice the batch and start every callback of it
LaunchBatch ==
    /\ pc = "launch"
    /\ i < Len(steamIds)
    /\ LET batch == Slice(steamIds, i, batchSize)
           started == {t \in Pos : i < t /\ t <= i + Len(batch)}
       IN
       /\ chunks' = Append(chunks, batch)
       /\ status' = [t \in Pos |-> IF t \in started THEN StartStatus(t)
                                   ELSE status[t]]
       /\ result' = [t \in Pos |-> IF t \in started THEN StartResult(t)
                                   ELSE result[t]]
       /\ calls' = [t \in Pos |->
                      IF t \in started /\ StartStatus(t) = "request"
                      THEN calls[t] + 1 ELSE calls[t]]
       /\ existed' = [t \in Pos |->
                        IF t \in started
                        THEN (IF dumps[steamIds[t]] = Absent THEN "no"
                              ELSE "yes")
                        ELSE existed[t]]
       /\ launches' = [t \in Pos |-> IF t \in started THEN launches[t] + 1
                                     ELSE launches[t]]
       /\ chunkOf' = [t \in Pos |-> IF t \in started THEN Len(chunks) + 1
                                    ELSE chunkOf[t]]
    /\ pc' = "await"
    /\ UNCHANGED <<bots, dumps, steamIds, batchSize, retries, prices, priceI,
                   priceCalls, priceFails, priceLoads, i, tryI, fails, writes,
                   dumps0, items, enriched, csv, log, topError>>

\* the inventory request of position t succeeds: the dump is written and
\* retry, fetchInventory and the callback return
InventoryOk(t) ==
    /\ pc = "await"
    /\ status[t] = "request"
    /\ dumps' = [dumps EXCEPT ![steamIds[t]] = Remote]
    /\ writes' = [writes EXCEPT ![steamIds[t]] = @ + 1]
    /\ IF RetryAfterSuccess(tryI[t], retries) = "return"
       THEN /\ result' = [result EXCEPT ![t] = Value(Remote)]
            /\ status' = [status EXCEPT ![t] = "ok"]
            /\ UNCHANGED <<tryI, calls>>
       ELSE /\ tryI' = [tryI EXCEPT ![t] = @ + 1]
            /\ calls' = [calls EXCEPT ![t] = @ + 1]
            /\ UNCHANGED <<status, result>>
    /\ UNCHANGED <<bots, pc, steamIds, batchSize, retries, prices, priceI,
                   priceCalls, priceFails, priceLoads, i, fails, existed,
                   launches, chunkOf, chunks, dumps0, items, enriched, csv,
                   log, topError>>

\* mutation: the error retry rethrows is not caught and rejects main
InventoryFail_abort(t) ==
    /\ pc = "await"
    /\ status[t] = "request"
    /\ fails' = [fails EXCEPT ![t] = @ + 1]
    /\ LET next == RetryAfterFailure(tryI[t], retries) IN
       CASE next = "throw" ->
              /\ status' = [status EXCEPT ![t] = "failed"]
              /\ result' = [result EXCEPT ![t] = HttpError(tryI[t] + 1)]
              /\ pc' = "failed"
              /\ topError' = HttpError(tryI[t] + 1)
              /\ UNCHANGED <<tryI, calls>>
         [] next = "again" ->
              /\ tryI' = [tryI EXCEPT ![t] = @ + 1]
              /\ calls' = [calls EXCEPT ![t] = @ + 1]
              /\ UNCHANGED <<status, result, pc, topError>>
         [] OTHER ->
              /\ status' = [status EXCEPT ![t] = "ok"]
              /\ result' = [result EXCEPT ![t] = NoResult]
              /\ UNCHANGED <<tryI, calls, pc, topError>>
    /\ UNCHANGED <<bots, dumps, steamIds, batchSize, retries, prices,
                   priceI, priceCalls, priceFails, priceLoads, i, existed,
                   launches, chunkOf, chunks, writes, dumps0, items, enriched,
                   csv, log>>

\* mutation: a failed request leaves its error body in the dump file
InventoryFail_writesError(t) ==
    /\ pc = "await"
    /\ status[t] = "request"
    /\ fails' = [fails EXCEPT ![t] = @ + 1]
    /\ dumps' = [dumps EXCEPT ![steamIds[t]] = Corrupt]
    /\ LET next == RetryAfterFailure(tryI[t], retries) IN
       CASE next = "throw" ->
              /\ status' = [status EXCEPT ![t] = "failed"]
              /\ result' = [result EXCEPT ![t] = HttpError(tryI[t] + 1)]
              /\ UNCHANGED <<tryI, calls>>
         [] next = "again" ->
              /\ tryI' = [tryI EXCEPT ![t] = @ + 1]
              /\ calls' = [calls EXCEPT ![t] = @ + 1]
              /\ UNCHANGED <<status, result>>
         [] OTHER ->
              /\ status' = [status EXCEPT ![t] = "ok"]
              /\ result' = [result EXCEPT ![t] = NoResult]
              /\ UNCHANGED <<tryI, calls>>
    /\ UNCHANGED <<bots, pc, steamIds, batchSize, retries, prices,
                   priceI, priceCalls, priceFails, priceLoads, i, existed,
                   launches, chunkOf, chunks, writes, dumps0, items, enriched,
                   csv, log, topError>>

\* the inventory request of position t fails: retry's catch block; the error
\* it rethrows is caught by the callback
InventoryFail(t) ==
    /\ pc = "await"
    /\ status[t] = "request"
    /\ fails' = [fails EXCEPT ![t] = @ + 1]
    /\ LET next == RetryAfterFailure(tryI[t], retries) IN
       CASE next = "throw" ->
              /\ status' = [status EXCEPT ![t] = "failed"]
              /\ result' = [result EXCEPT ![t] = HttpError(tryI[t] + 1)]
              /\ UNCHANGED <<tryI, calls>>
         [] next = "again" ->
              /\ tryI' = [tryI EXCEPT ![t] = @ + 1]
              /\ calls' = [calls EXCEPT ![t] = @ + 1]
              /\ UNCHANGED <<status, result>>
         [] OTHER ->
              /\ status' = [status EXCEPT ![t] = "ok"]
              /\ result' = [result EXCEPT ![t] = NoResult]
              /\ UNCHANGED <<tryI, calls>>
    /\ UNCHANGED <<bots, dumps, pc, steamIds, batchSize, retries, prices,
                   priceI, priceCalls, priceFails, priceLoads, i, existed,
                   launches, chunkOf, chunks, writes, dumps0, items, enriched,
                   csv, log, topError>>

\* Promise.allSettled resolves: no result is rejected, the loop steps on
BatchSettled ==
    /\ pc = "await"
    /\ AllSettled(i)
    /\ i' = i + batchSize
    /\ pc' = "launch"
    /\ UNCHANGED <<bots, dumps, steamIds, batchSize, retries, prices, priceI,
                   priceCalls, priceFails, priceLoads, status, tryI, calls,
                   fails, existed, result, launches, chunkOf, chunks, writes,
                   dumps0, items, enriched, csv, log, topError>>

\* the for loop ends and processInBatches returns
BatchesDone ==
    /\ pc = "launch"
    /\ ~(i < Len(steamIds))
    /\ pc' = "enrich"
    /\ UNCHANGED <<bots, dumps, steamIds, batchSize, retries, prices, priceI,
                   priceCalls, priceFails, priceLoads, i, status, tryI, calls,
                   fails, existed, result, launches, chunkOf, chunks, writes,
                   dumps0, items, enriched, csv, log, topError>>

\* ------------------------------------------------------------- processData
\* the dump of account id is the file <id>.json; processData takes the
\* account id back from the file name
FileName(id) == <<id, "json">>
SteamIdOf(file) == file[1]

\* fs.readdirSync(dumpPath): every file of the directory, by name
RECURSIVE ReadDir(_, _)
ReadDir(d, from) ==
    IF from > MaxLen THEN <<>>
    ELSE (IF DumpExists(d, from) THEN <<FileName(from)>> ELSE <<>>)
         \o ReadDir(d, from + 1)

\* buff?.price || 0
BuffPrice(p, name) == IF name \in p.buffed /\ p.price[name] # 0
                      THEN p.price[name] ELSE 0

\* the body of inventory.items.forEach: entries without a descriptor and
\* entries whose name has no catalog entry are left out
RECURSIVE EnrichEntries(_, _, _)
EnrichEntries(p, steamId, entries) ==
    IF entries = <<>> THEN <<>>
    ELSE LET e == Head(entries)
             rest == EnrichEntries(p, steamId, Tail(entries))
         IN IF ~e.item.present THEN rest
            ELSE IF e.item.market_hash_name \notin p.entries THEN rest
            ELSE << [asset_id |-> e.asset_id, d |-> e.d, item |-> e.item,
                     addons |-> e.addons, steam_id |-> steamId,
                     inspect_url |-> <<steamId, e.asset_id, e.d>>,
                     price |-> BuffPrice(p, e.item.market_hash_name)] >>
                 \o rest

\* the body of filesInDump.forEach, over the files from the first on
RECURSIVE EnrichFiles(_, _, _)
EnrichFiles(p, d, files) ==
    IF files = <<>> THEN <<>>
    ELSE LET steamId == SteamIdOf(Head(files)) IN
         EnrichEntries(p, steamId, RawItems(d[steamId]))
         \o EnrichFiles(p, d, Tail(files))

\* JSON.parse throws on some file of the directory
SomeUndecodable(d, files) ==
    \E k \in 1..Len(files) : ~Decodable(d, SteamIdOf(files[k]))

\* prices[...] is evaluated for some entry (one that has a descriptor)
SomeLookup(d, files) ==
    \E k \in 1..Len(files) :
        LET entries == RawItems(d[SteamIdOf(files[k])]) IN
        \E e \in 1..Len(entries) : entries[e].item.present

\* processData: an undecodable dump makes it throw, and so does a lookup in
\* prices when prices is undefined; either rejects main
ProcessData ==
    /\ pc = "enrich"
    /\ LET files == ReadDir(dumps, 1) IN
       IF SomeUndecodable(dumps, files)
       THEN /\ pc' = "failed"
            /\ topError' = ParseError
            /\ UNCHANGED <<items, enriched>>
       ELSE IF ~prices.loaded /\ SomeLookup(dumps, files)
       THEN /\ pc' = "failed"
            /\ topError' = TypeError
            /\ UNCHANGED <<items, enriched>>
       ELSE /\ items' = EnrichFiles(prices, dumps, files)
            /\ enriched' = TRUE
            /\ pc' = "report"
            /\ UNCHANGED topError
    /\ UNCHANGED <<bots, dumps, steamIds, batchSize, retries, prices, priceI,
                   priceCalls, priceFails, priceLoads, i, status, tryI, calls,
                   fails, existed, result, launches, chunkOf, chunks, writes,
                   dumps0, csv, log>>

\* ----------------------------------------------------------------- reports
\* mutation: the bucket's price is assigned, not added to
AddToBucket_overwrite(acc, key, price) ==
    IF \E k \in 1..Len(acc) : acc[k].key = key
    THEN [k \in 1..Len(acc) |->
            IF acc[k].key = key
            THEN [key |-> key, price |-> price, count |-> acc[k].count + 1]
            ELSE acc[k]]
    ELSE Append(acc, [key |-> key, price |-> price, count |-> 1])

\* acc[key].price += price; acc[key].count += 1, creating the bucket of a
\* new key after the ones there are (objects list string keys in the order
\* they were added)
AddToBucket(acc, key, price) ==
    IF \E k \in 1..Len(acc) : acc[k].key = key
    THEN [k \in 1..Len(acc) |->
            IF acc[k].key = key
            THEN [key |-> key, price |-> acc[k].price + price,
                  count |-> acc[k].count + 1]
            ELSE acc[k]]
    ELSE Append(acc, [key |-> key, price |-> price, count |-> 1])

\* the reduce of a grouping over the <<key, price>> pairs of the items
RECURSIVE Reduce(_)
Reduce(pairs) ==
    IF pairs = <<>> THEN <<>>
    ELSE LET last == pairs[Len(pairs)] IN
         AddToBucket(Reduce(SubSeq(pairs, 1, Len(pairs) - 1)),
                     last[1], last[2])

\* items.filter(keep)
RECURSIVE FilterSeq(_, _)
FilterSeq(s, keep) ==
    IF s = <<>> THEN <<>>
    ELSE (IF keep[1] THEN <<Head(s)>> ELSE <<>>)
         \o FilterSeq(Tail(s), Tail(keep))

\* sort((a, b) => b[1].price - a[1].price): descending price, equal prices
\* keeping their order (Array.prototype.sort is stable)
InsertByPrice(sorted, b) ==
    LET before == {k \in 1..Len(sorted) : sorted[k].price >= b.price}
        n == IF before = {} THEN 0
             ELSE CHOOSE k \in before : \A m \in before : m <= k
    IN SubSeq(sorted, 1, n) \o <<b>> \o SubSeq(sorted, n + 1, Len(sorted))

RECURSIVE SortByPrice(_)
SortByPrice(buckets) ==
    IF buckets = <<>> THEN <<>>
    ELSE InsertByPrice(SortByPrice(SubSeq(buckets, 1, Len(buckets) - 1)),
                       buckets[Len(buckets)])

\* acc + item.price over the items
RECURSIVE SumPrices(_)
SumPrices(its) == IF its = <<>> THEN 0
                  ELSE Head(its).price + SumPrices(Tail(its))

\* name.includes("Katowice 2014"): "Kato" stands for the names that do
IncludesKatowice2014(name) == name = "Kato"

ByBot(its) ==
    SortByPrice(Reduce([k \in 1..Len(its) |->
                          <<its[k].steam_id, its[k].price>>]))

ByCategory(its) ==
    Reduce([k \in 1..Len(its) |-> <<its[k].item.category, its[k].price>>])

ByWeapon(its) ==
    LET kept == FilterSeq(its, [k \in 1..Len(its) |->
                                  its[k].item.weapon_name # ""])
    IN Reduce([k \in 1..Len(kept) |->
                 <<kept[k].item.weapon_name, kept[k].price>>])

\* the by-name grouping leaves out the items priced 10000 or more
ByMarketHashName(its) ==
    LET kept == FilterSeq(its, [k \in 1..Len(its) |-> its[k].price < 10000])
    IN SortByPrice(Reduce([k \in 1..Len(kept) |->
                             <<kept[k].item.market_hash_name,
                               kept[k].price>>]))

\* the by-name lines: buckets under 100 * 100 are not printed
ByMarketHashNameLines(its) ==
    LET all == ByMarketHashName(its) IN
    FilterSeq(all, [k \in 1..Len(all) |-> ~(all[k].price < 100 * 100)])

Katowice2014Stickers(its) ==
    FilterSeq(its, [k \in 1..Len(its) |->
                      IncludesKatowice2014(its[k].item.market_hash_name)])

Katowice2014Crafts(its) ==
    FilterSeq(its, [k \in 1..Len(its) |->
                      /\ its[k].addons.present
                      /\ \E a \in 1..Len(its[k].addons.names) :
                            IncludesKatowice2014(its[k].addons.names[a])])

ByMarketHashName2(its) ==
    Reduce([k \in 1..Len(its) |->
              <<its[k].item.market_hash_name, its[k].price>>])

\* mutation: the CSV is built from the by-name lines that were printed
CsvRows_fromPrinted(its) ==
    LET g == ByMarketHashNameLines(its) IN
    [k \in 1..Len(g) |-> [name |-> g[k].key, qty |-> g[k].count,
                          date |-> "01/01/2019"]]

\* the rows of items.csv under the header "name,qty,date"
CsvRows(its) ==
    LET g == ByMarketHashName2(its) IN
    [k \in 1..Len(g) |-> [name |-> g[k].key, qty |-> g[k].count,
                          date |-> "01/01/2019"]]

\* the rest of main: every report section, then items.csv
WriteReports ==
    /\ pc = "report"
    /\ LET stickers == Katowice2014Stickers(items)
           crafts == Katowice2014Crafts(items)
       IN log' = [total |-> <<SumPrices(items)>>,
                  byBot |-> ByBot(items),
                  byCategory |-> ByCategory(items),
                  byWeapon |-> ByWeapon(items),
                  byName |-> ByMarketHashNameLines(items),
                  stickers |-> ByMarketHashName2(stickers),
                  stickersTotal |-> <<SumPrices(stickers)>>,
                  crafts |-> [k \in 1..Len(crafts) |->
                                [name |-> crafts[k].item.market_hash_name,
                                 price |-> crafts[k].price,
                                 inspect_url |-> crafts[k].inspect_url]],
                  craftsTotal |-> <<"Total Katowice 2014 crafts: ">>]
    /\ csv' = [written |-> TRUE, rows |-> CsvRows(items)]
    /\ pc' = "done"
    /\ UNCHANGED <<bots, dumps, steamIds, batchSize, retries, prices, priceI,
                   priceCalls, priceFails, priceLoads, i, status, tryI, calls,
                   fails, existed, result, launches, chunkOf, chunks, writes,
                   dumps0, items, enriched, topError>>

\* ------------------------------------------------------------ the next run
\* the program is started again on the same bots.txt: the dump directory is
\* what the last run left, log.txt is emptied, everything else is new
NewRun ==
    /\ pc \in {"done", "failed"}
    /\ dumps0' = dumps
    /\ pc' = "load"
    /\ steamIds' = <<>>
    /\ prices' = Undefined
    /\ priceI' = 0
    /\ priceCalls' = 0
    /\ priceFails' = 0
    /\ priceLoads' = 0
    /\ i' = 0
    /\ status' = [t \in Pos |-> "idle"]
    /\ tryI' = [t \in Pos |-> 0]
    /\ calls' = [t \in Pos |-> 0]
    /\ fails' = [t \in Pos |-> 0]
    /\ existed' = [t \in Pos |-> "-"]
    /\ result' = [t \in Pos |-> NoResult]
    /\ launches' = [t \in Pos |-> 0]
    /\ chunkOf' = [t \in Pos |-> 0]
    /\ chunks' = <<>>
    /\ writes' = [id \in Ids |-> 0]
    /\ items' = <<>>
    /\ enriched' = FALSE
    /\ csv' = [written |-> FALSE, rows |-> <<>>]
    /\ log' = EmptyLog
    /\ topError' = NoResult
    /\ UNCHANGED <<bots, dumps, batchSize, retries>>

Next ==
    \/ LoadSteamIds
    \/ PricesOk
    \/ PricesFail
    \/ LaunchBatch
    \/ \E t \in Pos : InventoryOk(t)
    \/ \E t \in Pos : InventoryFail(t)
    \/ BatchSettled
    \/ BatchesDone
    \/ ProcessData
    \/ WriteReports
    \/ NewRun

Spec == Init /\ [][Next]_vars

\* the run when every inventory request is answered at some time, with
\* success or with failure, and the continuations of processInBatches run
\* once what they await has resolved
FairSpec ==
    /\ Spec
    /\ WF_vars(LaunchBatch)
    /\ WF_vars(BatchSettled)
    /\ WF_vars(BatchesDone)
    /\ \A t \in Pos : WF_vars(InventoryOk(t) \/ InventoryFail(t))

\* ------------------------------------------------------------- properties
N == Len(steamIds)
Ceil(n, b) == (n + b - 1) \div b
Unsettled == {t \in Pos : launches[t] > 0 /\ ~Settled(t)}
\* processInBatches has returned (main failed later, if it failed)
FetchPhaseOver == \/ pc \in {"enrich", "report", "done"}
                  \/ pc = "failed" /\ priceLoads > 0

\* C1: when an operation fails k times and then succeeds, retry returns that
\* success and has called the operation exactly k + 1 times, with no call
\* after the success; for the inventory fetches and for the catalog fetch.
C1_SuccessEndsRetry ==
    /\ \A t \in Pos :
          (status[t] = "ok" /\ existed[t] = "no") =>
             /\ result[t] = Value(Remote)
             /\ calls[t] = fails[t] + 1
             /\ fails[t] < retries
    /\ priceLoads > 0 =>
          /\ prices = Catalog
          /\ priceCalls = priceFails + 1
          /\ priceFails < retries

C1_Witness ==
    \E t \in Pos : /\ status[t] = "ok" /\ existed[t] = "no"
                   /\ retries = 3 /\ fails[t] = 2 /\ calls[t] = 3
                   /\ result[t] = Value(Remote)

\* C2: when every attempt fails, retry has called the operation exactly
\* retries times and fails with the error of the last attempt, not an
\* earlier one and not a normal return.
C2_ExhaustedRetryThrowsLast ==
    /\ \A t \in Pos :
          /\ fails[t] = retries =>
                /\ status[t] = "failed"
                /\ result[t] = HttpError(retries)
                /\ calls[t] = retries
          /\ (status[t] = "failed" /\ result[t].what = "http") =>
                fails[t] = retries
    /\ priceFails = retries =>
          /\ pc = "failed"
          /\ topError = HttpError(retries)
          /\ priceCalls = retries
    /\ topError.what = "http" => priceFails = retries

C2_Witness ==
    \E t \in Pos : /\ status[t] = "failed" /\ retries = 3 /\ calls[t] = 3
                   /\ result[t] = HttpError(3)

\* C3: the batches are the consecutive slices of the list, Ceil(N / b) of
\* them when the loop is over, each of size b but the last, which holds the
\* rest; never more than b callbacks are unsettled.
ChunkSize(c) ==
    IF c < Ceil(N, batchSize) THEN batchSize
    ELSE N - batchSize * (Ceil(N, batchSize) - 1)

C3_ChunksAreSlices ==
    /\ Len(chunks) <= Ceil(N, batchSize)
    /\ \A c \in 1..Len(chunks) :
          chunks[c] = [k \in 1..ChunkSize(c) |->
                         steamIds[(c - 1) * batchSize + k]]
    /\ FetchPhaseOver => Len(chunks) = Ceil(N, batchSize)
    /\ Cardinality(Unsettled) <= batchSize

C3_Witness ==
    /\ N = 3 /\ batchSize = 2 /\ pc = "await"
    /\ chunks = << <<1, 2>>, <<3>> >>
    /\ Unsettled = {3}

\* C4: a callback of a later batch is started only when every callback of
\* the earlier batches has settled.
C4_ChunkBarrier ==
    \A t, u \in Pos :
        (launches[t] > 0 /\ launches[u] > 0 /\ chunkOf[u] < chunkOf[t])
           => Settled(u)

C4_Witness ==
    /\ batchSize = 2 /\ Len(chunks) = 2
    /\ status[1] = "failed" /\ result[1].what = "http"
    /\ status[2] = "ok" /\ existed[2] = "no"
    /\ status[3] = "request"

\* C5: every position of the list is started exactly once, a failed fetch
\* keeps no other position from being started and settled, and no fetch
\* failure reaches main: processInBatches returns normally.
C5_FailureIsolation ==
    /\ \A t \in Pos : launches[t] <= 1 /\ (t > N => launches[t] = 0)
    /\ FetchPhaseOver => \A t \in 1..N : launches[t] = 1 /\ Settled(t)
    /\ pc \in {"launch", "await"} => topError = NoResult
    /\ (pc = "failed" /\ topError.what = "http") => priceLoads = 0

C5_Witness ==
    /\ pc = "enrich" /\ N = 3 /\ batchSize = 2
    /\ status[1] = "failed" /\ result[1] = HttpError(retries)
    /\ status[2] = "ok" /\ calls[2] > 0
    /\ status[3] = "ok" /\ calls[3] > 0

\* C6: a dump that exists when a run starts is not written in that run and
\* holds the same content afterwards, in the first run and in every later.
C6_ExistingDumpNeverWritten ==
    \A id \in Ids :
        dumps0[id] # Absent => dumps[id] = dumps0[id] /\ writes[id] = 0

C6_Witness ==
    /\ pc = "done"
    /\ \E t \in 1..N : /\ launches[t] = 1
                       /\ dumps0[steamIds[t]] = Remote
                       /\ writes[steamIds[t]] = 0

\* C7: a fetchInventory call that finds the dump issues no inventory request
\* and uses no attempt; requests are issued only by calls that found none.
C7_CacheHitSkipsNetwork ==
    \A t \in Pos :
        /\ existed[t] = "yes" => calls[t] = 0 /\ tryI[t] = 0 /\ fails[t] = 0
        /\ calls[t] > 0 => existed[t] = "no"

C7_Witness ==
    /\ steamIds = <<1, 1>>
    /\ existed[1] = "no" /\ calls[1] = 1 /\ status[1] = "ok"
    /\ existed[2] = "yes" /\ calls[2] = 0 /\ result[2] = Value(Remote)

\* C8: an undecodable dump does not crash the run: main is never rejected
\* by the JSON.parse of a dump.
C8_CorruptDumpDoesNotCrash ==
    ~(pc = "failed" /\ topError = ParseError)

\* C9: prices is assigned at most once in a run, with the catalog; that
\* load is done before any callback is started and before any item is
\* enriched, and prices is not assigned again.
C9_PricesLoadedFirst ==
    /\ priceLoads <= 1
    /\ prices = (IF priceLoads = 0 THEN Undefined ELSE Catalog)
    /\ (\/ \E t \in Pos : launches[t] > 0
        \/ chunks # <<>>
        \/ enriched
        \/ items # <<>>
        \/ pc \in {"launch", "await", "enrich", "report", "done"})
       => priceLoads = 1 /\ prices = Catalog

C9_Witness ==
    /\ pc = "await" /\ Unsettled # {}
    /\ priceLoads = 1 /\ priceFails = 2 /\ priceCalls = 3

\* C10: when every catalog request fails, main is rejected with the last
\* error, and the run has started no callback, issued no inventory request,
\* written no dump, enriched nothing and written no CSV.
C10_FatalBootstrap ==
    priceFails = retries =>
       /\ pc = "failed"
       /\ topError = HttpError(retries)
       /\ \A t \in Pos : launches[t] = 0 /\ calls[t] = 0
       /\ chunks = <<>>
       /\ \A id \in Ids : writes[id] = 0
       /\ dumps = dumps0
       /\ items = <<>>
       /\ ~enriched
       /\ ~csv.written

C10_Witness ==
    /\ pc = "failed" /\ retries = 3 /\ priceFails = 3
    /\ topError = HttpError(3)
    /\ Len(bots.lines) = 3
    /\ \E id \in Ids : dumps[id] = Absent

\* the dumps processData read, and the entries of them that have a descriptor
DumpIds == {id \in Ids : dumps[id] \in Inventories}
Described(id) ==
    {e \in 1..Len(RawItems(dumps[id])) : RawItems(dumps[id])[e].item.present}
ItemsOf(id, asset) ==
    {k \in 1..Len(items) :
        items[k].steam_id = id /\ items[k].asset_id = asset}

\* C11: every entry that has a descriptor yields exactly one enriched item,
\* priced at the catalog's price of its name, and at 0 when the catalog has no
\* entry (or no price) for the name.
C11_EveryDescribedEntryEnriched ==
    enriched =>
       \A id \in DumpIds : \A e \in Described(id) :
          LET raw == RawItems(dumps[id])[e]
              name == raw.item.market_hash_name
              got == ItemsOf(id, raw.asset_id)
          IN /\ Cardinality(got) = 1
             /\ \A k \in got :
                   /\ items[k].price >= 0
                   /\ items[k].price = (IF name \in Catalog.buffed
                                        THEN Catalog.price[name] ELSE 0)

RECURSIVE BucketSum(_)
BucketSum(buckets) == IF buckets = <<>> THEN 0
                      ELSE Head(buckets).price + BucketSum(Tail(buckets))
RECURSIVE BucketCount(_)
BucketCount(buckets) == IF buckets = <<>> THEN 0
                        ELSE Head(buckets).count + BucketCount(Tail(buckets))
RECURSIVE QtySum(_)
QtySum(rows) == IF rows = <<>> THEN 0
                ELSE Head(rows).qty + QtySum(Tail(rows))

\* C12: for the groupings that take every item (by account, by category, by
\* name for the CSV) the bucket prices add up to the total value and the
\* bucket counts add up to the number of items.
C12_SumConservation ==
    pc = "done" =>
       /\ log.total = <<SumPrices(items)>>
       /\ BucketSum(log.byBot) = log.total[1]
       /\ BucketCount(log.byBot) = Len(items)
       /\ BucketSum(log.byCategory) = log.total[1]
       /\ BucketCount(log.byCategory) = Len(items)
       /\ BucketSum(ByMarketHashName2(items)) = log.total[1]
       /\ BucketCount(ByMarketHashName2(items)) = Len(items)
       /\ QtySum(csv.rows) = Len(items)

C12_Witness ==
    /\ pc = "done" /\ Len(items) >= 5 /\ log.total[1] > 0
    /\ Len(log.byBot) >= 2
    /\ \E k \in 1..Len(log.byCategory) : log.byCategory[k].count >= 2
    /\ Len(csv.rows) >= 3

RECURSIVE NameSum(_, _)
NameSum(its, name) ==
    IF its = <<>> THEN 0
    ELSE (IF Head(its).item.market_hash_name = name THEN Head(its).price
          ELSE 0) + NameSum(Tail(its), name)
RECURSIVE NameCount(_, _)
NameCount(its, name) ==
    IF its = <<>> THEN 0
    ELSE (IF Head(its).item.market_hash_name = name THEN 1 ELSE 0)
         + NameCount(Tail(its), name)
NamesOf(its) == {its[k].item.market_hash_name : k \in 1..Len(its)}

\* C13: the by-name report has, for every name some enriched item carries, a
\* line with the sum of the prices and the number of the items of that name
\* (one item "AK" priced 1500: a line AK, 1500, 1).
C13_ByNameLineForEveryName ==
    pc = "done" =>
       \A name \in NamesOf(items) :
          \E l \in 1..Len(log.byName) :
             /\ log.byName[l].key = name
             /\ log.byName[l].price = NameSum(items, name)
             /\ log.byName[l].count = NameCount(items, name)

RECURSIVE SumOverNames(_, _)
SumOverNames(its, names) ==
    IF names = {} THEN 0
    ELSE LET n == CHOOSE x \in names : TRUE IN
         NameSum(its, n) + SumOverNames(its, names \ {n})

\* the names whose items enter the by-name grouping (items priced under
\* 10000), which is made before any line is printed
GroupedNames(its) ==
    {its[k].item.market_hash_name :
        k \in {j \in 1..Len(its) : its[j].price < 10000}}

\* C14: the threshold of the by-name lines only decides which buckets are
\* printed. A printed bucket holds the sum and the number of all the items of
\* its name, every bucket at or over the threshold is printed, and the total
\* value, the other sections and the CSV rows take every item, also those of
\* the buckets that are not printed.
C14_ThresholdIsPrintOnly ==
    pc = "done" =>
       /\ \A l \in 1..Len(log.byName) :
             /\ ~(log.byName[l].price < 100 * 100)
             /\ log.byName[l].price = NameSum(items, log.byName[l].key)
             /\ log.byName[l].count = NameCount(items, log.byName[l].key)
       /\ \A name \in GroupedNames(items) :
             ~(NameSum(items, name) < 100 * 100) =>
                \E l \in 1..Len(log.byName) : log.byName[l].key = name
       /\ log.total = <<SumOverNames(items, NamesOf(items))>>
       /\ BucketSum(log.byBot) = SumOverNames(items, NamesOf(items))
       /\ BucketSum(log.byCategory) = SumOverNames(items, NamesOf(items))
       /\ {csv.rows[k].name : k \in 1..Len(csv.rows)} = NamesOf(items)
       /\ \A k \in 1..Len(csv.rows) :
             csv.rows[k].qty = NameCount(items, csv.rows[k].name)

C14_Witness ==
    /\ pc = "done"
    /\ \E l \in 1..Len(log.byName) : log.byName[l].count >= 2
    /\ \E name \in GroupedNames(items) :
          /\ NameSum(items, name) < 100 * 100
          /\ NameSum(items, name) > 0
          /\ \E k \in 1..Len(csv.rows) : csv.rows[k].name = name

\* the key strings of the model's inventories, in ascending string order
KeyOrder == <<"AK", "AK-47", "Container", "Kato", "M4", "M4A4", "NoBuff",
              "NoPrice", "Rifle", "Sticker">>
KeyRank(key) == CHOOSE r \in 1..Len(KeyOrder) : KeyOrder[r] = key

\* descending summed price, equal prices by ascending key
Ordered(lines, rank) ==
    \A a, b \in 1..Len(lines) :
        a < b => \/ lines[a].price > lines[b].price
                 \/ /\ lines[a].price = lines[b].price
                    /\ rank[a] < rank[b]

OrderedByName(lines) ==
    Ordered(lines, [k \in 1..Len(lines) |-> KeyRank(lines[k].key)])

\* C15: in every section of the report (by account, by category, by weapon,
\* by item name, Katowice 2014 names) the lines are in descending order of
\* the summed price, and lines of equal price in ascending order of the key.
C15_ReportOrdering ==
    pc = "done" =>
       /\ Ordered(log.byBot, [k \in 1..Len(log.byBot) |-> log.byBot[k].key])
       /\ OrderedByName(log.byCategory)
       /\ OrderedByName(log.byWeapon)
       /\ OrderedByName(log.byName)
       /\ OrderedByName(log.stickers)

\* C16: items.csv has one row for every distinct name among the enriched
\* items, and each row holds the name, the number of items of that name and
\* the summed price of those items.
C16_CsvRowsCarryAggregatePrice ==
    csv.written =>
       /\ Len(csv.rows) = Cardinality(NamesOf(items))
       /\ {csv.rows[k].name : k \in 1..Len(csv.rows)} = NamesOf(items)
       /\ \A k \in 1..Len(csv.rows) :
             /\ csv.rows[k].qty = NameCount(items, csv.rows[k].name)
             /\ "price" \in DOMAIN csv.rows[k]
             /\ csv.rows[k].price = NameSum(items, csv.rows[k].name)

NoDuplicates(s) == \A a, b \in 1..Len(s) : a # b => s[a] # s[b]
\* the started, unsettled callbacks whose dump is that of account id
InFlightFor(id) == {t \in Unsettled : t <= Len(steamIds) /\ steamIds[t] = id}

\* C17: when the id list has no duplicates, at no point of a run do two
\* unsettled fetches have the same dump file, no callback is started twice,
\* every dump is written at most once in the run, and once it is written no
\* fetch for it is still going on.
C17_SingleWriterPerDump ==
    NoDuplicates(steamIds) =>
       /\ \A t \in Pos : launches[t] <= 1
       /\ \A id \in Ids :
             /\ Cardinality(InFlightFor(id)) <= 1
             /\ writes[id] <= 1
             /\ writes[id] = 1 => InFlightFor(id) = {}

C17_Witness ==
    /\ NoDuplicates(steamIds)
    /\ pc = "await"
    /\ \E t1, t2 \in 1..Len(steamIds) :
          /\ chunkOf[t1] = chunkOf[t2]
          /\ status[t1] = "request"
          /\ status[t2] = "ok"
          /\ fails[t2] > 0
          /\ writes[steamIds[t2]] = 1
          /\ writes[steamIds[t1]] = 0

ListedIds == {steamIds[t] : t \in 1..Len(steamIds)}

\* C18: every enriched item belongs to an account of this run's id list; an
\* account of the list with no dump gives no item, and the dump of an
\* account that is not in the list gives no item.
C18_ItemsOnlyFromListedIds ==
    enriched =>
       /\ \A k \in 1..Len(items) : items[k].steam_id \in ListedIds
       /\ \A id \in ListedIds :
             dumps[id] = Absent =>
                \A k \in 1..Len(items) : items[k].steam_id # id

\* the callbacks of account id whose request was answered with success
Fetched(id) == {t \in 1..Len(steamIds) :
                   /\ steamIds[t] = id
                   /\ status[t] = "ok"
                   /\ existed[t] = "no"
                   /\ fails[t] < calls[t]}

\* C19: a fetch that fails on every attempt writes nothing: a dump differs
\* from what it was at the start of the run only when it was absent and a
\* request for its id succeeded, and it is written once per such success. A
\* callback that found no dump has issued a request (so the next run asks
\* again for an id that failed), and when it has failed it has used up every
\* attempt and, no other callback having fetched its id, there is no dump.
C19_NoDumpOnFailure ==
    /\ \A id \in Ids :
          /\ writes[id] = Cardinality(Fetched(id))
          /\ dumps[id] # dumps0[id] =>
                /\ dumps0[id] = Absent
                /\ dumps[id] = Remote
                /\ Fetched(id) # {}
    /\ \A t \in 1..Len(steamIds) :
          /\ launches[t] > 0 /\ existed[t] = "no" => calls[t] >= 1
          /\ status[t] = "failed" /\ existed[t] = "no" =>
                /\ calls[t] = retries
                /\ fails[t] = retries
                /\ Fetched(steamIds[t]) = {} => dumps[steamIds[t]] = Absent

\* a later run (account t1 was fetched by an earlier one) in which account
\* t2, which had failed, is requested again and fails on every attempt
C19_Witness ==
    /\ retries = MaxRetries
    /\ \E t1, t2 \in 1..Len(steamIds) :
          /\ dumps0[steamIds[t1]] = Remote
          /\ dumps0[steamIds[t2]] = Absent
          /\ status[t2] = "failed"
          /\ calls[t2] = MaxRetries
          /\ dumps[steamIds[t2]] = Absent
          /\ dumps[steamIds[t1]] = Remote

RECURSIVE SumCalls(_)
SumCalls(ts) == IF ts = {} THEN 0
                ELSE LET t == CHOOSE x \in ts : TRUE IN
                     calls[t] + SumCalls(ts \ {t})
\* the inventory requests issued in this run for account id
RequestsFor(id) == SumCalls({t \in 1..Len(steamIds) : steamIds[t] = id})

\* C20 (as stated): with the attempt limit of 3, no account id is requested
\* more than 3 times in the fetch phase, whatever the id list.
C20_AtMostThreeRequestsPerId ==
    retries = MaxRetries => \A id \in Ids : RequestsFor(id) <= MaxRetries

\* processInBatches has returned with every chunk sliced and every callback
\* settled
FetchDone ==
    /\ pc = "enrich"
    /\ ~(i < Len(steamIds))
    /\ Len(chunks) = Ceil(Len(steamIds), batchSize)
    /\ \A t \in 1..Len(steamIds) : launches[t] = 1 /\ Settled(t)

\* a callback of the current chunk has not settled
Blocked == pc = "await" /\ \E t \in BatchPos(i) : ~Settled(t)

\* C20 (amended): when every inventory request is answered at some time, the
\* fetch phase ends with every chunk sliced and every callback settled, each
\* entry of the id list having issued at most as many requests as the
\* attempt limit (3); and as long as a callback of the current chunk has not
\* settled, the loop stays at its await and no callback of a later chunk is
\* started.
C20_FetchPhaseTerminates ==
    /\ [](\A t \in Pos : calls[t] <= retries /\ retries <= MaxRetries)
    /\ [][Blocked => /\ pc' = "await"
                     /\ i' = i
                     /\ chunks' = chunks
                     /\ launches' = launches]_vars
    /\ (pc \in {"launch", "await"}) ~> FetchDone

C20_Witness ==
    /\ FetchDone
    /\ retries = MaxRetries
    /\ Len(chunks) >= 2
    /\ \E t \in 1..Len(steamIds) :
          status[t] = "failed" /\ calls[t] = MaxRetries
    /\ \E t \in 1..Len(steamIds) :
          status[t] = "ok" /\ calls[t] >= 2

====
